---------------------------- MODULE Spec2Model ----------------------------
(***************************************************************************)
(* The request-authorization gate of the mcp-weather resource servers:     *)
(* OriginValidationMiddleware, IntrospectionTokenVerifier.verify_token and *)
(* the wiring done by create_resource_server and main, in                  *)
(* src/mcp/complex_mcp_server.py and src/mcp/mcp_server.py.                *)
(*                                                                         *)
(* Text is modelled as a sequence of pieces (<<"http", "://", "localhost">> *)
(* is the string "http://localhost"), so that startswith, split, strip and *)
(* lower are computed on the text and not assumed.                         *)
(***************************************************************************)
EXTENDS Naturals, Sequences, FiniteSets

VARIABLES
    script,           \* which server file is run: "complex_mcp_server" | "mcp_server"
    transport,        \* --transport
    ssl,              \* SSL_CERTFILE and SSL_KEYFILE are both set
    oauth_strict,     \* --oauth-strict
    auth_server,      \* --auth-server
    ALLOWED_ORIGINS,  \* environment variable, as text
    ALLOW_NO_ORIGIN,  \* environment variable, as text, or Unset
    req,              \* the request being served
    call,             \* a verify_token call followed on its own
    authz,            \* what the Authorization Server answers for each token
    authz_changes,    \* how many times the Authorization Server's state changed
    last,             \* the verify_token call that returned before this one
    pool              \* the AsyncClients of the verify_token calls in flight

vars == <<script, transport, ssl, oauth_strict, auth_server,
          ALLOWED_ORIGINS, ALLOW_NO_ORIGIN, req,
          call, authz, authz_changes, last, pool>>

\* what the actions serving a request leave alone
others == <<call, authz, authz_changes, last, pool>>

config == <<script, transport, ssl, oauth_strict, auth_server,
            ALLOWED_ORIGINS, ALLOW_NO_ORIGIN>>

---------------------------------------------------------------------------
(* Text helpers *)

StartsWith(s, p) == Len(p) <= Len(s) /\ SubSeq(s, 1, Len(p)) = p

\* str.startswith(tuple): true when any of the prefixes matches
StartsWithAny(s, ps) == \E p \in ps : StartsWith(s, p)

\* str.lower(), piece by piece
LowerPiece(c) ==
    CASE c = "TRUE" -> "true"
      [] c = "Yes" -> "yes"
      [] c = "Origin" -> "origin"
      [] c = "Authorization" -> "authorization"
      [] c = "HTTPS://APP.EXAMPLE" -> "https://app.example"
      [] OTHER -> c

Lower(s) == [i \in DOMAIN s |-> LowerPiece(s[i])]

\* str.upper() of an HTTP method
Upper(m) ==
    CASE m = "options" -> "OPTIONS"
      [] m = "get" -> "GET"
      [] m = "post" -> "POST"
      [] OTHER -> m

RECURSIVE LStrip(_)
LStrip(s) == IF s # <<>> /\ Head(s) = " " THEN LStrip(Tail(s)) ELSE s

RECURSIVE RStrip(_)
RStrip(s) ==
    IF s # <<>> /\ s[Len(s)] = " " THEN RStrip(SubSeq(s, 1, Len(s) - 1)) ELSE s

\* str.strip()
Strip(s) == RStrip(LStrip(s))

\* str.split(sep): the fields between the separators, empty fields kept
RECURSIVE SplitOn(_, _, _)
SplitOn(s, sep, cur) ==
    IF s = <<>> THEN <<cur>>
    ELSE IF Head(s) = sep THEN <<cur>> \o SplitOn(Tail(s), sep, <<>>)
    ELSE SplitOn(Tail(s), sep, Append(cur, Head(s)))

\* str.split(): the whitespace-separated words, no empty ones
RECURSIVE SplitWords(_)
SplitWords(s) ==
    IF s = <<>> THEN <<>>
    ELSE IF Head(s) = " " THEN SplitWords(Tail(s))
    ELSE <<Head(s)>> \o SplitWords(Tail(s))

Range(f) == {f[i] : i \in DOMAIN f}

---------------------------------------------------------------------------
(* Configuration *)

Unset == <<"(unset)">>

\* os.getenv(name, default)
GetEnv(value, default) == IF value = Unset THEN default ELSE value

TruthyFlags == {<<"1">>, <<"true">>, <<"yes">>, <<"y">>}

\* main: os.getenv("ALLOW_NO_ORIGIN", "true").lower() in {"1","true","yes","y"}
allow_no_origin == Lower(GetEnv(ALLOW_NO_ORIGIN, <<"true">>)) \in TruthyFlags

\* _parse_env_list: [v.strip() for v in value.split(",") if v.strip()]
DropEmptyFields(value) ==
    LET fields == SplitOn(value, ",", <<>>)
    IN  {Strip(fields[i]) : i \in {j \in DOMAIN fields : Strip(fields[j]) # <<>>}}

_parse_env_list(value) ==
    IF value = Unset \/ value = <<>> THEN {} ELSE DropEmptyFields(value)

allowed_origins == _parse_env_list(ALLOWED_ORIGINS)


\* click options and environment of main
Scripts == {"complex_mcp_server", "mcp_server"}
Transports == {"sse", "streamable-http"}

AuthServers ==
    { <<"http", "://", "localhost", ":", "9001">>,
      <<"https", "://", "auth.example">>,
      <<"http", "://", "auth.example">>,
      <<"http", "://", "localhost", ".evil.example">>,
      <<"http", "://", "127.0.0.1", ":", "9001">>,
      <<"http", "://", "127.0.0.1", ".evil.example">>,
      <<"ftp", "://", "auth.example">> }

AllowedOriginsEnvs ==
    { Unset,
      <<"https://app.example">>,
      <<" ", "https://app.example", " ", ",", " ", "https://other.example">>,
      <<"https://app.example", ",", ",", " ">>,
      <<"HTTPS://APP.EXAMPLE">> }

AllowNoOriginEnvs == {Unset, <<"Yes">>, <<"false">>}

\* main: AnyHttpUrl(auth_server) raises ValueError for a scheme other than
\* http or https, and main returns 1 without serving
AnyHttpUrlOK(url) == Len(url) >= 3 /\ url[1] \in {"http", "https"} /\ url[2] = "://"

\* main: auth_server_introspection_endpoint = f"{auth_server}/introspect"
introspection_endpoint == auth_server \o <<"/", "introspect">>

\* main: server_url = f"https://rtlm.info:{port}", port 9000
server_url == "https://rtlm.info:9000"

\* ResourceServerSettings.mcp_scope
mcp_scope == "user"

no_required_scopes == {}

\* create_resource_server: AuthSettings(required_scopes=[settings.mcp_scope])
required_scopes == {mcp_scope}

\* create_resource_server: IntrospectionTokenVerifier(validate_resource=settings.oauth_strict)
validate_resource == oauth_strict

AuthNotConfigured == FALSE

\* create_resource_server: FastMCP(token_verifier=..., auth=AuthSettings(...)):
\* every MCP operation of the app is served behind the bearer-token gate
AuthConfigured == TRUE

\* create_resource_server: the FastMCP(...) call is given the token verifier, the
\* issuer, the required scopes and the resource server URL, and no strictness
\* flag: the gate is never asked to compare the audience
GateStrict == FALSE

\* main: OriginValidationMiddleware is added only on the uvicorn path of
\* complex_mcp_server (TLS files present and transport streamable-http);
\* every other path is mcp_server.run(transport), and mcp_server.py has no
\* Origin middleware at all
OriginGuardInstalled ==
    /\ script = "complex_mcp_server"
    /\ ssl
    /\ transport = "streamable-http"

\* main: CORSMiddleware is added when the allow-list is not empty; the Origin
\* middleware is added after it, so it is the outer one
CorsInstalled == OriginGuardInstalled /\ allowed_origins # {}

---------------------------------------------------------------------------
(* Requests *)

NoHeader == <<"(absent)">>

Methods == {"GET", "POST", "OPTIONS", "options"}

OriginValues ==
    { <<"https://app.example">>,
      <<"HTTPS://APP.EXAMPLE">>,
      <<"https://app.example", ".evil.example">>,
      <<"https://other.example">>,
      <<>> }

OriginHeaders ==
    {<<>>} \cup {<< <<"origin", v>> >> : v \in OriginValues}
           \cup {<< <<"Origin", <<"https://app.example">> >> >>}

AuthorizationValues ==
    { <<"Bearer", " ", "tok">>,
      <<"Basic", " ", "tok">>,
      <<"Bearer">> }

AuthorizationHeaders ==
    {<<>>} \cup {<< <<"authorization", v>> >> : v \in AuthorizationValues}

\* OriginValidationMiddleware.__call__:
\* headers = {k.decode().lower(): v.decode() for k, v in scope.get("headers", [])}
\* headers.get(name): the value of the last header of that name, or None
HeaderGet(headers, name) ==
    LET idx == {i \in DOMAIN headers : LowerPiece(headers[i][1]) = name}
    IN  IF idx = {} THEN NoHeader
        ELSE headers[CHOOSE i \in idx : \A j \in idx : j <= i][2]


---------------------------------------------------------------------------
(* The Authorization Server's answers to the introspection POST *)

\* a JSON field that the response does not carry
Absent == "absent"
NoScope == <<"(absent)">>

ScopeValues ==
    { NoScope,
      <<"user">>,
      <<"user", " ", "read">>,
      <<"read">>,
      <<" ", "user", " ", " ", "read">>,
      <<>> }

AudValues == {Absent, "https://rtlm.info:9000", "https://other.example"}

\* the "active" field is one of "true" (JSON true), "false" (JSON false),
\* "str_false" (the JSON string "false"), "num_1" and "num_0" (the JSON
\* numbers 1 and 0), "null", or Absent

Failure(kind) ==
    [kind |-> kind, status |-> 0, json |-> "none", active |-> Absent,
     client_id |-> Absent, scope |-> NoScope, exp |-> Absent, aud |-> Absent]

HttpReply(status, json) ==
    [kind |-> "response", status |-> status, json |-> json, active |-> Absent,
     client_id |-> Absent, scope |-> NoScope, exp |-> Absent, aud |-> Absent]

ObjectReplies ==
    { [kind |-> "response", status |-> 200, json |-> "object", active |-> a,
       client_id |-> ce[1], scope |-> s, exp |-> ce[2], aud |-> d] :
        a \in {"true", "str_false"}, s \in ScopeValues, d \in AudValues,
        ce \in {<<"abc", "1700000000">>, <<Absent, Absent>>} }
    \cup
    { [HttpReply(200, "object") EXCEPT !.active = a] : a \in {"false", "null", Absent} }
    \cup
    { [HttpReply(200, "object") EXCEPT !.active = a, !.scope = <<"user">>] :
        a \in {"num_1", "num_0"} }
    \cup
    { [HttpReply(200, "object") EXCEPT !.active = "false", !.scope = <<"user">>,
                                       !.aud = "https://rtlm.info:9000"] }

Replies ==
    ObjectReplies
    \cup {HttpReply(200, "invalid"), HttpReply(200, "list")}
    \cup {HttpReply(401, "object"), HttpReply(500, "invalid")}
    \cup {Failure("timeout"), Failure("refused"), Failure("tls")}

NoReply == Failure("none")

---------------------------------------------------------------------------
(* IntrospectionTokenVerifier.verify_token *)

NoIdentity ==
    [kind |-> "none", token |-> "", client_id |-> "", scopes |-> <<>>,
     expires_at |-> "None", resource |-> "None"]

Raised == [NoIdentity EXCEPT !.kind = "raised"]

SafePrefixes ==
    { <<"https", "://">>, <<"http", "://", "localhost">>, <<"http", "://", "127.0.0.1">> }

\* the SSRF guard: introspection_endpoint.startswith(("https://",
\* "http://localhost", "http://127.0.0.1"))
EndpointAccepted(endpoint) == StartsWithAny(endpoint, SafePrefixes)

\* Python truthiness of data.get("active", False)
ActiveTruthy(a) == a \in {"true", "str_false", "num_1"}

\* data.get(key): None when the key is missing
JsonGet(v) == IF v = Absent THEN "None" ELSE v

ParseScopesKeepingBlanks(scope) ==
    IF scope = NoScope \/ scope = <<>> THEN <<>> ELSE scope

\* data.get("scope", "").split() if data.get("scope") else []
ParseScopes(scope) ==
    IF scope = NoScope \/ scope = <<>> THEN <<>> ELSE SplitWords(scope)

\* the body of the try block: what it returns, or Raised for an exception
\* (client.post raising on a transport failure, response.json() raising on
\* a body that is not JSON, data.get raising on JSON that is not an object)
TryIntrospect(token, reply) ==
    IF reply.kind # "response" THEN Raised
    ELSE IF reply.status # 200 THEN NoIdentity
    ELSE IF reply.json # "object" THEN Raised
    ELSE IF ~ActiveTruthy(reply.active) THEN NoIdentity
    ELSE [kind |-> "identity",
          token |-> token,
          client_id |-> IF reply.client_id = Absent THEN "unknown" ELSE reply.client_id,
          scopes |-> ParseScopes(reply.scope),
          expires_at |-> JsonGet(reply.exp),
          resource |-> JsonGet(reply.aud)]

ExceptNothing(result) == result

\* except Exception: log a warning, return None
ExceptException(result) == IF result.kind = "raised" THEN NoIdentity ELSE result

\* verify_token up to its await: None at once for an endpoint the SSRF guard
\* rejects, the POST otherwise
VerifyStart(endpoint) == IF ~EndpointAccepted(endpoint) THEN "none" ELSE "post"

VerifyReplyRemembering(token, reply) ==
    IF last.pc = "returned" /\ last.token = token /\ last.result.kind = "identity"
    THEN last.result
    ELSE ExceptException(TryIntrospect(token, reply))

\* verify_token once the POST has been answered (or has failed)
VerifyReply(token, reply) == ExceptException(TryIntrospect(token, reply))


---------------------------------------------------------------------------
(* The request being served *)

NoToken == ""

IdleReq ==
    [type |-> "none", method |-> "", headers |-> <<>>, pc |-> "idle",
     guard |-> "not_run", state |-> "Unauthenticated", status |-> 0, error |-> "",
     calls |-> 0, posts |-> 0, reply |-> NoReply, identity |-> NoIdentity, handler |-> FALSE,
     tool |-> "", tool_result |-> ""]

\* where a request goes once the Origin middleware calls self.app
AfterOrigin == IF CorsInstalled THEN "cors" ELSE "auth"

\* uvicorn hands every event to the outermost layer of the app
FirstLayer == IF OriginGuardInstalled THEN "origin" ELSE "auth"

\* a request arrives
Arrive ==
    /\ req.pc = "idle"
    /\ \/ \E m \in Methods, oh \in OriginHeaders, ah \in AuthorizationHeaders :
            req' = [IdleReq EXCEPT !.type = "http", !.method = m,
                                   !.headers = oh \o ah, !.pc = FirstLayer]
       \/ req' = [IdleReq EXCEPT !.type = "lifespan", !.pc = FirstLayer]
    /\ UNCHANGED <<config, others>>

OriginAllowedIgnoringCase(origin, allowed) ==
    \E a \in allowed : Lower(a) = Lower(origin)

\* OriginValidationMiddleware.__call__: origin not in self.allowed, negated
OriginAllowed(origin, allowed) == origin \in allowed

MissingOriginAlwaysAdmitted(allow) == TRUE

\* OriginValidationMiddleware.__call__: if not self.allow_no_origin: reject
MissingOriginAdmitted(allow) == allow

IsPreflightNever(method) == FALSE

\* OriginValidationMiddleware.__call__: method = scope.get("method", "GET").upper();
\* method == "OPTIONS"
IsPreflight(method) == Upper(method) = "OPTIONS"

\* OriginValidationMiddleware.__call__: "app" when it calls self.app, else
\* the error of the 403 it answers
OriginDecision(r) ==
    IF r.type # "http" THEN "app"
    ELSE IF IsPreflight(r.method) THEN "app"
    ELSE LET origin == HeaderGet(r.headers, "origin")
         IN  IF origin = NoHeader
             THEN IF ~MissingOriginAdmitted(allow_no_origin)
                  THEN "Origin required" ELSE "app"
             ELSE IF ~OriginAllowed(origin, allowed_origins)
                  THEN "Origin not allowed" ELSE "app"

OriginValidationMiddleware ==
    /\ req.pc = "origin"
    /\ LET d == OriginDecision(req)
       IN  req' = IF d = "app"
                  THEN [req EXCEPT !.guard = "app", !.state = "OriginOK",
                                   !.pc = AfterOrigin]
                  ELSE [req EXCEPT !.guard = "rejected", !.state = "OriginRejected",
                                   !.status = 403, !.error = d, !.pc = "done"]
    /\ UNCHANGED <<config, others>>

\* CORSMiddleware: it answers a preflight itself (an OPTIONS request with an
\* Origin and an Access-Control-Request-Method header) and passes every other
\* request on; whether the request names a method is not kept in the model
CORSMiddleware ==
    /\ req.pc = "cors"
    /\ \E names_method \in BOOLEAN :
         req' = IF /\ req.type = "http"
                   /\ req.method = "OPTIONS"
                   /\ HeaderGet(req.headers, "origin") # NoHeader
                   /\ names_method
                THEN [req EXCEPT !.state = "Preflight", !.status = 200, !.pc = "done"]
                ELSE [req EXCEPT !.pc = "auth"]
    /\ UNCHANGED <<config, others>>

\* the token of an "Authorization: Bearer <token>" header, or NoToken
BearerToken(headers) ==
    LET h == HeaderGet(headers, "authorization")
    IN  IF h # NoHeader /\ Len(h) = 3 /\ h[1] = "Bearer" /\ h[2] = " "
        THEN h[3] ELSE NoToken

Reject401(r) ==
    [r EXCEPT !.state = "TokenRejected", !.status = 401,
              !.error = "invalid_token", !.pc = "done"]

\* the gate up to the introspection POST: the bearer token is extracted and
\* verify_token is called
Authenticate ==
    /\ req.pc = "auth"
    /\ req' = IF req.type # "http" THEN [req EXCEPT !.state = "NotARequest", !.pc = "done"]
              ELSE IF ~AuthConfigured THEN [req EXCEPT !.pc = "handler"]
              ELSE IF BearerToken(req.headers) = NoToken THEN Reject401(req)
              ELSE IF VerifyStart(introspection_endpoint) = "none"
                   THEN Reject401([req EXCEPT !.calls = @ + 1])
              ELSE [req EXCEPT !.calls = @ + 1, !.posts = @ + 1,
                               !.pc = "introspecting"]
    /\ UNCHANGED <<config, others>>

\* the gate once verify_token has returned
GateDecide(r, result) ==
    IF result.kind = "raised"
    THEN [r EXCEPT !.state = "Error", !.status = 500,
                   !.error = "Internal Server Error", !.pc = "done"]
    ELSE IF result.kind = "none" THEN Reject401(r)
    ELSE IF GateStrict /\ result.resource # server_url
    THEN [r EXCEPT !.identity = result, !.state = "Forbidden", !.status = 403,
                   !.error = "invalid_resource", !.pc = "done"]
    ELSE IF required_scopes # {} /\ required_scopes \cap Range(result.scopes) = {}
    THEN [r EXCEPT !.identity = result, !.state = "Forbidden", !.status = 403,
                   !.error = "insufficient_scope", !.pc = "done"]
    ELSE [r EXCEPT !.identity = result, !.state = "Authorized", !.pc = "handler"]

\* the introspection POST is answered, or fails
IntrospectionReply ==
    /\ req.pc = "introspecting"
    /\ \E reply \in Replies :
         req' = GateDecide([req EXCEPT !.reply = reply],
                           VerifyReply(BearerToken(req.headers), reply))
    /\ UNCHANGED <<config, others>>

\* the functions create_resource_server decorates with @app.tool(), under
\* their own names (both scripts register the same two)
RegisteredTools == {"get_current_temperature", "get_time"}

\* the names session.call_tool is given by the test script
TestToolCalls == {"current_temperature", "weather_assistant"}

ToolNames == RegisteredTools \cup TestToolCalls

\* a tools/call: the function registered under the name runs, and a name
\* that is not registered is answered with an unknown-tool error
CallTool(name) == IF name \in RegisteredTools THEN "result" ELSE "unknown_tool"

\* the MCP app behind the gate, which runs the tool the request calls
ToolHandler ==
    /\ req.pc = "handler"
    /\ \E name \in ToolNames :
         req' = [req EXCEPT !.handler = TRUE, !.status = 200, !.tool = name,
                            !.tool_result = CallTool(name), !.pc = "done"]
    /\ UNCHANGED <<config, others>>

\* the response has been sent; nothing of the request is kept (the Identity
\* lives in the request's context only)
Respond ==
    /\ req.pc = "done"
    /\ req' = IdleReq
    /\ UNCHANGED <<config, others>>

---------------------------------------------------------------------------
(* verify_token called on its own, against an Authorization Server whose
   state changes *)

\* verify_token(token: str): an empty token and a token
Tokens == {"", "tok"}

MaxASChanges == 2

\* the HTTP answers the Authorization Server's state gives for a token
ASAnswers ==
    { r \in Replies :
        /\ r.kind = "response"
        /\ r.active \in {"true", "str_false", "false", Absent}
        /\ r.aud = Absent
        /\ r.client_id = Absent
        /\ r.scope = (IF ActiveTruthy(r.active) THEN <<"user">> ELSE NoScope) }

\* client.post raising: httpx.TimeoutException, ConnectError, TLS failure
TransportFailures == {Failure("timeout"), Failure("refused"), Failure("tls")}

NoCall ==
    [pc |-> "idle", token |-> "", posts |-> 0, started |-> 0, answered |-> 0,
     reply |-> NoReply, result |-> NoIdentity]

\* verify_token is entered: the SSRF guard returns None at once, or the
\* client is built and the POST is sent
VerifyTokenCall ==
    /\ call.pc = "idle"
    /\ \E token \in Tokens :
         call' = IF VerifyStart(introspection_endpoint) = "none"
                 THEN [NoCall EXCEPT !.pc = "returned", !.token = token,
                                     !.started = authz_changes,
                                     !.answered = authz_changes]
                 ELSE [NoCall EXCEPT !.pc = "awaiting", !.token = token,
                                     !.posts = 1, !.started = authz_changes]
    /\ UNCHANGED <<config, req, authz, authz_changes, last, pool>>

\* the POST is answered from the Authorization Server's state at that
\* moment, or fails in transport; verify_token computes its return value
PostAnswered ==
    /\ call.pc = "awaiting"
    /\ \E reply \in {authz[call.token]} \cup TransportFailures :
         call' = [call EXCEPT !.pc = "returned", !.reply = reply,
                              !.answered = authz_changes,
                              !.result = VerifyReply(call.token, reply)]
    /\ UNCHANGED <<config, req, authz, authz_changes, last, pool>>

\* verify_token returns: the client is closed and the verifier keeps
\* nothing of the call
VerifyTokenReturn ==
    /\ call.pc = "returned"
    /\ call' = NoCall
    /\ last' = [call EXCEPT !.started = call.answered]
    /\ UNCHANGED <<config, req, authz, authz_changes, pool>>

\* the Authorization Server revokes, expires or issues a token, or breaks
ASChange ==
    /\ authz_changes < MaxASChanges
    /\ \E token \in Tokens :
         \E a \in ASAnswers \ {authz[token]} :
            authz' = [authz EXCEPT ![token] = a]
    /\ authz_changes' = authz_changes + 1
    /\ UNCHANGED <<config, req, call, last, pool>>

NextVerify ==
    \/ VerifyTokenCall
    \/ PostAnswered
    \/ VerifyTokenReturn
    \/ ASChange

---------------------------------------------------------------------------
(* The connections of concurrent verify_token calls *)

\* limits = httpx.Limits(max_connections=10, max_keepalive_connections=5)
max_connections == 10

MaxConcurrent == 12

\* no verify_token call in flight
NoClients == [created |-> 0, posting |-> 0, answered |-> 0]

InFlight == pool.created + pool.posting + pool.answered

\* a request reaches verify_token: async with httpx.AsyncClient(limits=limits)
\* builds a client, and with it a connection pool, for this call alone
ClientCreated ==
    /\ InFlight < MaxConcurrent
    /\ pool' = [pool EXCEPT !.created = @ + 1]
    /\ UNCHANGED <<config, req, call, authz, authz_changes, last>>

\* await client.post: the call's own pool, which holds no connection yet,
\* is below its limit and opens one to the Authorization Server
ClientPosts ==
    /\ pool.created > 0
    /\ 0 < max_connections
    /\ pool' = [pool EXCEPT !.created = @ - 1, !.posting = @ + 1]
    /\ UNCHANGED <<config, req, call, authz, authz_changes, last>>

\* the response arrives; the connection stays in the call's pool, kept alive
ClientAnswered ==
    /\ pool.posting > 0
    /\ pool' = [pool EXCEPT !.posting = @ - 1, !.answered = @ + 1]
    /\ UNCHANGED <<config, req, call, authz, authz_changes, last>>

\* the async with block is left: the client and its connection are closed
ClientClosed ==
    /\ pool.answered > 0
    /\ pool' = [pool EXCEPT !.answered = @ - 1]
    /\ UNCHANGED <<config, req, call, authz, authz_changes, last>>

\* the connections open to the Authorization Server, over all the clients
OpenConnections == pool.posting + pool.answered

NextPool ==
    \/ ClientCreated
    \/ ClientPosts
    \/ ClientAnswered
    \/ ClientClosed

Next ==
    \/ Arrive
    \/ OriginValidationMiddleware
    \/ CORSMiddleware
    \/ Authenticate
    \/ IntrospectionReply
    \/ ToolHandler
    \/ Respond

\* every way of starting either server, with one allow-list
Init ==
    /\ script \in Scripts
    /\ transport \in Transports
    /\ ssl \in BOOLEAN
    /\ oauth_strict \in BOOLEAN
    /\ auth_server \in {u \in AuthServers : AnyHttpUrlOK(u)}
    /\ ALLOWED_ORIGINS = <<"https://app.example">>
    /\ ALLOW_NO_ORIGIN \in {Unset, <<"false">>}
    /\ req = IdleReq
    /\ call = NoCall
    /\ authz = [t \in Tokens |-> HttpReply(200, "object")]
    /\ last = NoCall
    /\ authz_changes = 0
    /\ pool = NoClients

Spec == Init /\ [][Next]_vars

\* complex_mcp_server on its uvicorn path, with every allow-list
InitOrigin ==
    /\ script = "complex_mcp_server"
    /\ transport = "streamable-http"
    /\ ssl = TRUE
    /\ oauth_strict = FALSE
    /\ auth_server = <<"http", "://", "localhost", ":", "9001">>
    /\ ALLOWED_ORIGINS \in AllowedOriginsEnvs
    /\ ALLOW_NO_ORIGIN \in AllowNoOriginEnvs
    /\ req = IdleReq
    /\ call = NoCall
    /\ authz = [t \in Tokens |-> HttpReply(200, "object")]
    /\ last = NoCall
    /\ authz_changes = 0
    /\ pool = NoClients

SpecOrigin == InitOrigin /\ [][Next]_vars

\* one server, idle
InitServer ==
    /\ script = "complex_mcp_server"
    /\ transport = "streamable-http"
    /\ ssl = FALSE
    /\ oauth_strict = FALSE
    /\ ALLOWED_ORIGINS = <<"https://app.example">>
    /\ ALLOW_NO_ORIGIN = Unset
    /\ req = IdleReq
    /\ call = NoCall
    /\ last = NoCall
    /\ authz_changes = 0
    /\ pool = NoClients

\* verify_token called again and again, with any Authorization Server
InitVerify ==
    /\ InitServer
    /\ auth_server \in {u \in AuthServers : AnyHttpUrlOK(u) /\ Len(u) = 3}
    /\ authz \in [Tokens -> ASAnswers]

SpecVerify == InitVerify /\ [][NextVerify]_vars

\* requests reaching verify_token concurrently
InitPool ==
    /\ InitServer
    /\ auth_server = <<"http", "://", "localhost", ":", "9001">>
    /\ authz = [t \in Tokens |-> HttpReply(200, "object")]

SpecPool == InitPool /\ [][NextPool]_vars


---------------------------------------------------------------------------
(* Properties *)

\* the request is an HTTP request that the bearer-token gate has taken up or
\* will take up: the Origin middleware has not answered it and CORS has not
\* answered it as a preflight
Answered == req.type = "http" /\ req.pc = "done"
ByGate == req.state \notin {"OriginRejected", "Preflight"}

\* the raw value of the request's Origin header, NoHeader when it has none
OriginHeaderOf(r) ==
    IF \E i \in DOMAIN r.headers : r.headers[i][1] \in {"origin", "Origin"}
    THEN r.headers[CHOOSE i \in DOMAIN r.headers :
                       r.headers[i][1] \in {"origin", "Origin"}][2]
    ELSE NoHeader

AuthorizationHeaderOf(r) ==
    IF \E i \in DOMAIN r.headers : r.headers[i][1] = "authorization"
    THEN r.headers[CHOOSE i \in DOMAIN r.headers :
                       r.headers[i][1] = "authorization"][2]
    ELSE NoHeader

IsBearerForm(h) == \E t \in {"tok"} : h = <<"Bearer", " ", t>>

\* the host of a URL: the pieces after "://" up to the port or the path
RECURSIVE UpToDelimiter(_)
UpToDelimiter(s) ==
    IF s = <<>> \/ Head(s) \in {":", "/"} THEN <<>>
    ELSE <<Head(s)>> \o UpToDelimiter(Tail(s))

SchemeOf(url) == url[1]
HostOf(url) == UpToDelimiter(SubSeq(url, 3, Len(url)))

\* C1: in every configuration, a request for which an introspection POST was
\* issued has first been admitted by the Origin middleware, so a request the
\* Origin middleware rejects, or never decides on, causes no introspection.
C1_OriginGuardBeforeIntrospection ==
    /\ req.posts > 0 => req.guard = "app"
    /\ req.guard = "rejected" => req.posts = 0

\* C2: a request to a protected operation whose Authorization header is absent
\* or not of the form "Bearer <token>" causes no verify_token call and no
\* introspection POST, never reaches the tool handler, and is answered 401
\* with an error body.
C2_NoBearerIs401WithoutIntrospection ==
    (req.type = "http" /\ ~IsBearerForm(AuthorizationHeaderOf(req)))
        => /\ req.calls = 0 /\ req.posts = 0
           /\ ~req.handler /\ req.pc # "handler"
           /\ (Answered /\ ByGate) =>
                 (req.status = 401 /\ req.error = "invalid_token"
                    /\ req.state = "TokenRejected")

C2_Witness ==
    /\ Answered /\ req.guard = "app"
    /\ AuthorizationHeaderOf(req) = NoHeader
    /\ req.status = 401 /\ req.calls = 0 /\ req.posts = 0

\* the reply gives no identity: a transport failure, a status other than
\* 200, a body that is not a JSON object, or a token that is not active
Unusable(reply) ==
    \/ reply.kind \in {"timeout", "refused", "tls"}
    \/ reply.status # 200
    \/ reply.json # "object"
    \/ reply.active \in {"false", "null", Absent}

\* C3: when introspection yields no identity (the endpoint is refused by the
\* SSRF guard, or the reply is unusable), the request is answered 401: never
\* a 5xx, and the tool handler is not invoked.
C3_NoIdentityIs401 ==
    /\ (req.reply # NoReply /\ Unusable(req.reply))
          => (req.pc = "done" /\ req.status = 401 /\ req.state = "TokenRejected"
                /\ ~req.handler)
    /\ (Answered /\ ByGate /\ ~EndpointAccepted(introspection_endpoint))
          => (req.status = 401 /\ ~req.handler)
    /\ req.status < 500

C3_Witness ==
    /\ req.reply.kind = "timeout"
    /\ req.status = 401 /\ req.pc = "done" /\ ~req.handler

\* C4: under --oauth-strict, a request whose token introspects as active with
\* an aud other than this server's URL is answered 403 and does not reach the
\* tool handler.
C4_StrictAudienceMismatchIs403 ==
    (/\ oauth_strict
     /\ req.reply.kind = "response" /\ req.reply.status = 200
     /\ req.reply.json = "object" /\ req.reply.active = "true"
     /\ req.reply.aud # server_url)
        => (req.status = 403 /\ req.pc = "done" /\ ~req.handler)

ActiveReply(reply) ==
    /\ reply.kind = "response" /\ reply.status = 200
    /\ reply.json = "object" /\ reply.active = "true"

\* C5: a request whose token introspects as active without the required scope
\* "user" is answered 403 and does not reach the handler; with the scope and
\* without --oauth-strict it proceeds to the handler with the reply's scopes
\* attached as the Identity's scopes.
C5_RequiredScope ==
    /\ (ActiveReply(req.reply) /\ "user" \notin Range(req.reply.scope))
          => (req.status = 403 /\ req.state = "Forbidden" /\ req.pc = "done"
                /\ ~req.handler)
    /\ (ActiveReply(req.reply) /\ "user" \in Range(req.reply.scope) /\ ~oauth_strict)
          => /\ req.state = "Authorized"
             /\ req.pc \in {"handler", "done"}
             /\ req.pc = "done" => (req.handler /\ req.status = 200)
             /\ Range(req.identity.scopes) = Range(req.reply.scope) \ {" "}

C5_Witness ==
    /\ ActiveReply(req.reply) /\ req.reply.scope = <<"user">> /\ ~oauth_strict
    /\ req.handler /\ Range(req.identity.scopes) = {"user"}

\* C6: an answered request that the gate took up is in exactly one of the
\* terminal states, and the tool handler runs only for a request that is
\* Authorized with an Identity built from an introspection reply whose active
\* field is true.
C6_TerminalStatesAndHandler ==
    /\ (Answered /\ req.state # "Preflight")
          => req.state \in {"OriginRejected", "TokenRejected", "Forbidden", "Authorized"}
    /\ (req.handler \/ req.pc = "handler")
          => /\ req.state = "Authorized"
             /\ req.identity.kind = "identity"
             /\ ActiveReply(req.reply)

\* C10: an introspection POST is issued only to an endpoint whose scheme is
\* https, or whose scheme is http and whose host is exactly localhost or
\* 127.0.0.1.
C10_PostOnlyToSafeEndpoint ==
    req.posts > 0 =>
        \/ SchemeOf(introspection_endpoint) = "https"
        \/ /\ SchemeOf(introspection_endpoint) = "http"
           /\ HostOf(introspection_endpoint) \in {<<"localhost">>, <<"127.0.0.1">>}


\* the allow-list each ALLOWED_ORIGINS value stands for: the comma-separated
\* entries, surrounding blanks and empty entries dropped
AllowListOf(env) ==
    CASE env = Unset -> {}
      [] env = <<"https://app.example">> -> { <<"https://app.example">> }
      [] env = <<" ", "https://app.example", " ", ",", " ", "https://other.example">>
            -> { <<"https://app.example">>, <<"https://other.example">> }
      [] env = <<"https://app.example", ",", ",", " ">> -> { <<"https://app.example">> }
      [] env = <<"HTTPS://APP.EXAMPLE">> -> { <<"HTTPS://APP.EXAMPLE">> }

\* the flag each ALLOW_NO_ORIGIN value stands for
AllowMissingOf(env) ==
    CASE env = Unset -> TRUE
      [] env = <<"Yes">> -> TRUE
      [] env = <<"false">> -> FALSE

GuardRan == req.type = "http" /\ req.guard # "not_run"
GuardRejectedWith(error) ==
    /\ req.guard = "rejected" /\ req.state = "OriginRejected"
    /\ req.status = 403 /\ req.error = error /\ req.pc = "done"
    /\ req.posts = 0 /\ ~req.handler
GuardPassed ==
    /\ req.guard = "app" /\ req.state # "OriginRejected"
    /\ req.error \notin {"Origin required", "Origin not allowed"}

\* C7: for a request that is not OPTIONS and carries an Origin header, the
\* Origin middleware calls the wrapped app exactly when the header value is,
\* character for character, an entry of the allow-list; otherwise it answers
\* 403 {"error": "Origin not allowed"} and the wrapped app is not called.
C7_OriginExactMembership ==
    (GuardRan /\ req.method \notin {"OPTIONS", "options"}
       /\ OriginHeaderOf(req) # NoHeader)
        => IF OriginHeaderOf(req) \in AllowListOf(ALLOWED_ORIGINS)
           THEN GuardPassed
           ELSE GuardRejectedWith("Origin not allowed")

C7_Witness ==
    /\ req.method = "POST"
    /\ OriginHeaderOf(req) = <<"https://app.example">>
    /\ ALLOWED_ORIGINS = <<"HTTPS://APP.EXAMPLE">>
    /\ GuardRejectedWith("Origin not allowed")

\* C8: for a request that is not OPTIONS and has no Origin header, the Origin
\* middleware calls the wrapped app when allow_no_origin is true and answers
\* 403 {"error": "Origin required"} without calling it when it is false.
C8_MissingOrigin ==
    (GuardRan /\ req.method \notin {"OPTIONS", "options"}
       /\ OriginHeaderOf(req) = NoHeader)
        => IF AllowMissingOf(ALLOW_NO_ORIGIN)
           THEN GuardPassed
           ELSE GuardRejectedWith("Origin required")

C8_Witness ==
    /\ req.method = "GET"
    /\ OriginHeaderOf(req) = NoHeader
    /\ ALLOW_NO_ORIGIN = <<"false">>
    /\ GuardRejectedWith("Origin required")

\* C9: the Origin middleware passes every OPTIONS request to the wrapped app,
\* whatever its Origin header and whatever allow_no_origin is.
C9_OptionsPassThrough ==
    (GuardRan /\ req.method = "OPTIONS") => GuardPassed

C9_Witness ==
    /\ req.method = "OPTIONS" /\ GuardPassed
    /\ \/ /\ OriginHeaderOf(req) = NoHeader
          /\ ALLOW_NO_ORIGIN = <<"false">>
       \/ /\ OriginHeaderOf(req) = <<"https://other.example">>
          /\ ALLOWED_ORIGINS = <<"https://app.example">>


\* C11: verify_token builds an Identity only from a reply whose "active" field
\* is the boolean true; a missing, false or non-boolean "active" gives none.
C11_IdentityOnlyFromBooleanTrue ==
    req.identity.kind = "identity" => req.reply.active = "true"

\* the words of each scope string of the replies
WordsOf(scope) ==
    CASE scope = NoScope -> <<>>
      [] scope = <<>> -> <<>>
      [] scope = <<"user">> -> <<"user">>
      [] scope = <<"read">> -> <<"read">>
      [] scope = <<"user", " ", "read">> -> <<"user", "read">>
      [] scope = <<" ", "user", " ", " ", "read">> -> <<"user", "read">>

\* C13: for an active reply the Identity has the reply's client_id, or
\* "unknown" without one; the whitespace-separated words of its scope, none
\* when the scope is missing or empty; its exp as expires_at and its aud as
\* audience.
C13_IdentityFields ==
    ActiveReply(req.reply)
        => /\ req.identity.kind = "identity"
           /\ req.identity.client_id =
                 (IF req.reply.client_id = Absent THEN "unknown" ELSE req.reply.client_id)
           /\ req.identity.scopes = WordsOf(req.reply.scope)
           /\ req.identity.expires_at =
                 (IF req.reply.exp = Absent THEN "None" ELSE req.reply.exp)
           /\ req.identity.resource =
                 (IF req.reply.aud = Absent THEN "None" ELSE req.reply.aud)
           /\ req.identity.token = "tok"

C13_Witness ==
    /\ ActiveReply(req.reply)
    /\ req.reply.client_id = "abc" /\ req.reply.scope = <<"user", " ", "read">>
    /\ req.identity.client_id = "abc" /\ req.identity.scopes = <<"user", "read">>
    /\ req.identity.expires_at = "1700000000"


\* C14: the server started from mcp/mcp_server.py lists the tools the test
\* calls, 'current_temperature' and 'weather_assistant', and a call to either
\* returns a result, not an unknown-tool error.
C14_TestToolsRegistered ==
    (script = "mcp_server" /\ req.handler /\ req.tool \in TestToolCalls)
        => (req.tool \in RegisteredTools /\ req.tool_result = "result")


\* C12: verify_token called with an empty token returns no identity and does
\* not raise, whatever the Authorization Server answers for that token.
C12_EmptyTokenGivesNoIdentity ==
    (call.pc = "returned" /\ call.token = "") => call.result.kind = "none"

\* a reply that is a non-200 status, a body that is not a JSON object, or a
\* failure of the transport
FailedIntrospection(reply) ==
    \/ reply.kind \in {"timeout", "refused", "tls"}
    \/ reply.kind = "response" /\ reply.status # 200
    \/ reply.kind = "response" /\ reply.json # "object"

\* C15: verify_token never raises; a non-200 status, a body that is not a
\* JSON object and a transport failure of the POST each return no identity.
C15_NeverRaises ==
    call.pc = "returned"
        => /\ call.result.kind # "raised"
           /\ (call.posts = 1 /\ FailedIntrospection(call.reply))
                 => call.result.kind = "none"

C15_Witness ==
    /\ call.pc = "returned" /\ call.posts = 1
    /\ call.reply = HttpReply(200, "list")
    /\ call.result.kind = "none"

\* C16: whatever the number of requests in flight, the connections open to
\* the Authorization Server never exceed max_connections.
C16_ConnectionsBounded == OpenConnections <= max_connections

\* the Authorization Server answered the call itself
AnsweredByAS(c) == c.pc = "returned" /\ c.reply.kind = "response"

\* the Authorization Server says the token is not active
AnswersInactive(a) == a.status = 200 /\ a.json = "object" /\ a.active = "false"

\* C17: every verify_token call on a safe endpoint sends its own POST; a call
\* answered while the Authorization Server says inactive for the token is
\* denied whatever earlier calls returned; and two calls with the same token
\* answered from the same Authorization Server state decide alike.
C17_NoResultKept ==
    /\ (call.pc = "returned" /\ EndpointAccepted(introspection_endpoint))
          => call.posts = 1
    /\ (AnsweredByAS(call) /\ call.started = authz_changes
          /\ AnswersInactive(authz[call.token]))
          => call.result.kind = "none"
    /\ (AnsweredByAS(call) /\ AnsweredByAS(last) /\ call.token = last.token
          /\ call.answered = last.answered)
          => call.result = last.result

C17_Witness ==
    /\ AnsweredByAS(last) /\ last.token = "tok" /\ last.result.kind = "identity"
    /\ AnsweredByAS(call) /\ call.token = "tok" /\ call.posts = 1
    /\ call.started = authz_changes /\ AnswersInactive(authz["tok"])
    /\ call.result.kind = "none"

=============================================================================
